---- MODULE Spec2Model ----
(***************************************************************************)
(* The music notation compiler and playback scheduler of the text          *)
(* adventure (src/src/audio.rs): SongPlayer::try_from compiles every voice *)
(* of a Song (VoicePlayer::new, one token at a time), SongPlayer::play     *)
(* schedules every voice on its oscillator and starts it.                  *)
(*                                                                         *)
(* Numbers.  Times are f64 seconds in the code; here they are integers in  *)
(* thousandths (4.0 is 4000).  Frequencies are f32 in the code; here they  *)
(* are integers in eighths (261.0 is 2088), the smallest octave factor     *)
(* being 0.125.  Every quotient the model takes is exact in both.          *)
(* Strings are sequences of one-character strings.                         *)
(***************************************************************************)
EXTENDS Integers, Sequences, FiniteSets, TLC

(***************************************************************************)
(* Bounds of the input space.                                              *)
(***************************************************************************)
MaxTokens == 3
MaxVoices == 2
MaxPlays == 2
MaxActions == 2

(***************************************************************************)
(* Characters.                                                             *)
(***************************************************************************)
Lower ==
  {"a", "b", "c", "d", "e", "f", "g", "h", "i", "j", "k", "l", "m",
   "n", "o", "p", "q", "r", "s", "t", "u", "v", "w", "x", "y", "z"}

Digit ==
  {"0", "1", "2", "3", "4", "5", "6", "7", "8", "9"}

Whitespace ==
  {" ", "\t", "\n"}

DigitValue ==
  ("0" :> 0) @@ ("1" :> 1) @@ ("2" :> 2) @@ ("3" :> 3) @@ ("4" :> 4) @@
  ("5" :> 5) @@ ("6" :> 6) @@ ("7" :> 7) @@ ("8" :> 8) @@ ("9" :> 9)

(***************************************************************************)
(* str::split_whitespace: the maximal runs of non-whitespace characters.   *)
(***************************************************************************)
RECURSIVE SplitFrom(_, _, _)
SplitFrom(s, i, cur) ==
  IF i > Len(s)
  THEN IF cur = <<>> THEN <<>> ELSE <<cur>>
  ELSE IF s[i] \in Whitespace
       THEN IF cur = <<>>
            THEN SplitFrom(s, i + 1, <<>>)
            ELSE <<cur>> \o SplitFrom(s, i + 1, <<>>)
       ELSE SplitFrom(s, i + 1, Append(cur, s[i]))

split_whitespace(s) == SplitFrom(s, 1, <<>>)

(***************************************************************************)
(* The pitch table.                                                        *)
(***************************************************************************)
note_indices ==
  (<<"c">> :> 0) @@ (<<"c", "i", "s">> :> 1) @@ (<<"d", "e", "s">> :> 1) @@
  (<<"d">> :> 2) @@ (<<"d", "i", "s">> :> 3) @@ (<<"e", "s">> :> 3) @@
  (<<"e">> :> 4) @@ (<<"f">> :> 5) @@ (<<"f", "i", "s">> :> 6) @@
  (<<"g", "e", "s">> :> 6) @@ (<<"g">> :> 7) @@ (<<"g", "i", "s">> :> 8) @@
  (<<"a", "s">> :> 8) @@ (<<"a">> :> 9) @@ (<<"a", "i", "s">> :> 10) @@
  (<<"b", "e", "s">> :> 10) @@ (<<"b">> :> 11)

\* frequencies(), in Hz
frequencies ==
  <<261, 277, 293, 311, 329, 349, 369, 392, 415, 440, 466, 493>>

\* One unit of frequency in the model is 1/8 Hz: 0.125 is the least factor.
FreqScale == 8

\* octaves = [0.125, 0.25, 0.5, 1.0, 2.0], times FreqScale; Rust indexes it
\* from 0, so octaves[k] of the code is octaves[k + 1] here.
octaves ==
  <<1, 2, 4, 8, 16>>

(***************************************************************************)
(* The regular expression ([a-z]+)(,|')?(1-9)?(.)? of VoicePlayer::new,    *)
(* as Regex::captures applies it: unanchored, leftmost match, every         *)
(* quantifier greedy.  The match starts at the first lower-case letter;    *)
(* group 1 is the maximal run of letters; group 2 one ',' or ''' when that *)
(* is the next character; group 3 the three characters "1-9" (the pattern  *)
(* is a literal, not a character class) when they come next; group 4 any   *)
(* one character that comes next.  Whatever follows is ignored.  Every     *)
(* later group is optional, so no backtracking takes place.  A group that  *)
(* did not take part is <<>> (no group can match the empty string).        *)
(***************************************************************************)
FirstLower(s) ==
  IF \E i \in 1..Len(s) : s[i] \in Lower
  THEN CHOOSE i \in 1..Len(s) :
         s[i] \in Lower /\ \A j \in 1..(i - 1) : s[j] \notin Lower
  ELSE 0

RunEnd(s, i) ==
  CHOOSE j \in i..Len(s) :
    /\ \A k \in i..j : s[k] \in Lower
    /\ (j = Len(s) \/ s[j + 1] \notin Lower)

rgx_captures(s) ==
  LET st == FirstLower(s) IN
  IF st = 0
  THEN [matched |-> FALSE, g1 |-> <<>>, g2 |-> <<>>, g3 |-> <<>>, g4 |-> <<>>]
  ELSE LET e1 == RunEnd(s, st)
           g2 == IF e1 < Len(s) /\ s[e1 + 1] \in {",", "'"}
                 THEN <<s[e1 + 1]>> ELSE <<>>
           e2 == e1 + Len(g2)
           g3 == IF e2 + 3 <= Len(s) /\ SubSeq(s, e2 + 1, e2 + 3) = <<"1", "-", "9">>
                 THEN SubSeq(s, e2 + 1, e2 + 3) ELSE <<>>
           e3 == e2 + Len(g3)
           g4 == IF e3 < Len(s) /\ s[e3 + 1] # "\n"
                 THEN <<s[e3 + 1]>> ELSE <<>>
       IN [matched |-> TRUE, g1 |-> SubSeq(s, st, e1),
           g2 |-> g2, g3 |-> g3, g4 |-> g4]

(***************************************************************************)
(* str::parse::<u64>: an optional '+', then one or more decimal digits.    *)
(***************************************************************************)
U64Digits(s) ==
  IF Len(s) > 0 /\ s[1] = "+" THEN Tail(s) ELSE s

parse_u64_ok(s) ==
  /\ Len(U64Digits(s)) > 0
  /\ \A i \in 1..Len(U64Digits(s)) : U64Digits(s)[i] \in Digit

RECURSIVE DecimalValue(_)
DecimalValue(d) ==
  IF d = <<>> THEN 0
  ELSE 10 * DecimalValue(SubSeq(d, 1, Len(d) - 1)) + DigitValue[d[Len(d)]]

parse_u64(s) == DecimalValue(U64Digits(s))

(***************************************************************************)
(* The inputs: a Song is a unit_length and a list of voices, each a note   *)
(* string (adventure::Song, adventure::SongVoice; the instrument of a      *)
(* voice is read nowhere).                                                 *)
(***************************************************************************)
Alphabet ==
  { <<"c">>,                      \* a pitch, semitone 0
    <<"b", "'">>,                 \* semitone 11, up-mark
    <<"b", ",">>,                 \* semitone 11, down-mark
    <<"r", "'">>,                 \* a rest carrying an octave mark
    <<"c", "2", ".">>,            \* duration digit and dot
    <<"x", "4">>,                 \* no pitch of the table
    <<"4">>,                      \* no letter at all
    <<"c", "1", "-", "9">> }      \* the only text group 3 can match

TokenSeqs(n) ==
  UNION { [1..k -> Alphabet] : k \in 0..n }

RECURSIVE JoinTokens(_)
JoinTokens(ts) ==
  IF ts = <<>> THEN <<>>
  ELSE IF Len(ts) = 1 THEN ts[1]
  ELSE ts[1] \o <<" ">> \o JoinTokens(Tail(ts))

RECURSIVE SumTo(_, _)
SumTo(lens, i) ==
  IF i = 0 THEN 0 ELSE lens[i] + SumTo(lens, i - 1)

\* The lengths of at most MaxVoices voices.
VoiceLengths ==
  UNION { [1..k -> 0..MaxTokens] : k \in 0..MaxVoices }

\* The song whose i-th voice holds the next lens[i] tokens of ts.
SongOf(unit_length, ts, lens) ==
  [unit_length |-> unit_length,
   voices |-> [i \in 1..Len(lens) |->
                 [notes |-> JoinTokens(SubSeq(ts, SumTo(lens, i - 1) + 1,
                                              SumTo(lens, i)))]]]

\* Every song of at most MaxVoices voices and MaxTokens tokens, at
\* unit_length 4.0.
IsGeneralSong(s) ==
  \E ts \in TokenSeqs(MaxTokens), lens \in VoiceLengths :
    /\ SumTo(lens, Len(lens)) = Len(ts)
    /\ s = SongOf(4000, ts, lens)

\* "c4 e4 g4 c2"
RoundTripNotes ==
  <<"c", "4", " ", "e", "4", " ", "g", "4", " ", "c", "2">>

\* Hand-picked note strings next to the exhaustive ones.
SelectedNotes ==
  { RoundTripNotes,
    <<"c", " ", "b">>,
    <<"b", " ", "c">>,
    <<"c", " ", "r", " ", "b">>,
    <<"c", " ", "b", "'">>,
    <<"c", " ", "b", ",">>,
    <<"c", "'", " ", "c", "'", " ", "c", "'">>,
    <<"c", ",", " ", "c", ",", " ", "c", ",">>,
    <<"r", " ", "c", "2", " ", "r", " ", "c">>,
    <<"c", "2", " ", "c", "4", ".">>,
    <<"c", "0">>,
    <<"c", ".">>,
    <<"r", " ", "c", ".">>,
    <<"c", "'", " ", "c", "'", " ", "b">>,
    <<"4", "c">>,
    <<"c", "4", "x">>,
    <<"4", " ", "x", "4">>,
    <<" ", "c", " ", " ", "b", "e", "s", "\t", "r", "r", " ">> }

SelectedSongs ==
  { [unit_length |-> u, voices |-> <<[notes |-> n]>>] :
      u \in {4000, 8000, -4000}, n \in SelectedNotes }

(***************************************************************************)
(* The inputs of the game (adventure.rs, lines 9-62).  A text is a         *)
(* sequence of pieces, the empty sequence being the empty string; yields,  *)
(* depends.on and depends.not are the sets of their items; an absent       *)
(* transition or music is <<>>.                                            *)
(***************************************************************************)
RoomNames ==
  {"hall", "cave"}

\* "void" is the name of no room
Destinations ==
  RoomNames \cup {"void"}

\* the keys of assets.music
MusicKeys ==
  {"tune"}

\* the song of assets.music: "c b"
TuneSong ==
  [unit_length |-> 4000, voices |-> <<[notes |-> <<"c", " ", "b">>]>>]

ActionPool ==
  { [name |-> "take", yields |-> {"key"}, text |-> <<"You take the key.">>,
     on |-> {}, not |-> {"key"}, transition |-> <<>>, music |-> <<>>],
    [name |-> "unlock", yields |-> {}, text |-> <<>>,
     on |-> {"key"}, not |-> {}, transition |-> <<"cave">>, music |-> <<>>],
    [name |-> "return", yields |-> {"lamp"}, text |-> <<"You walk back.">>,
     on |-> {}, not |-> {}, transition |-> <<"hall">>, music |-> <<"lost">>],
    [name |-> "jump", yields |-> {}, text |-> <<"You jump.">>,
     on |-> {}, not |-> {}, transition |-> <<"void">>, music |-> <<>>],
    [name |-> "sing", yields |-> {"lamp"}, text |-> <<"You sing.">>,
     on |-> {}, not |-> {}, transition |-> <<>>, music |-> <<"tune">>] }

\* the lists of at most MaxActions different actions of the pool
ActionLists ==
  { as \in UNION { [1..n -> ActionPool] : n \in 0..MaxActions } :
      \A i, j \in 1..Len(as) : as[i] = as[j] => i = j }

IsAdventure(a) ==
  \E start \in Destinations, hall \in ActionLists, cave \in ActionLists :
    a = [start |-> start,
         intro |-> <<"intro">>,
         rooms |-> [r \in RoomNames |->
                     [description |-> <<r>>,
                      actions |-> IF r = "hall" THEN hall ELSE cave]]]

\* main.rs builds no Game
NoAdventure ==
  [start |-> "", intro |-> <<>>, rooms |-> <<>>]

(***************************************************************************)
(* State.                                                                  *)
(*   song            the adventure::Song handed to SongPlayer::try_from    *)
(*   pc              "try_from"  at the head of the loop over the voices   *)
(*                   "resolve"   in VoicePlayer::new, at the head of the   *)
(*                               loop over the tokens                      *)
(*                   "ready"     try_from returned Ok(SongPlayer)          *)
(*                   "failed"    try_from returned Err                     *)
(*                   "panicked"  an expect() or an index check panicked    *)
(*   error           what failed, "none" otherwise                         *)
(*   raw_notes, note_pos, last_octave, last_pitch_idx, last_duration,      *)
(*   notes           the locals of VoicePlayer::new for the current voice  *)
(*   voices          the VoicePlayers pushed so far                        *)
(*   oscillators     every OscillatorNode the AudioContext has created:    *)
(*                   its automation points in submission order and the     *)
(*                   number of start() calls made on it                    *)
(*   plays           the number of SongPlayer::play calls made             *)
(*   submitted       per voice, the automation points the last play call   *)
(*                   handed to set_value_at_time                           *)
(*   adventure       the adventure::Adventure handed to Game::try_from     *)
(*   phase           "constructing"  Game::start has not run               *)
(*                   "started"       Game::start has returned              *)
(*                   "clicked"       a click callback has returned         *)
(*                   "crashed"       a click callback has panicked         *)
(*   current_text, current_room, inventory                                 *)
(*                   the fields of GameData                                *)
(*   links           the actions whose links the actions element shows     *)
(*   storage         the item textadventure_save of the local storage:     *)
(*                   <<>> when there is none, else the one SaveGame        *)
(***************************************************************************)
VARIABLES song, pc, error, raw_notes, note_pos, last_octave, last_pitch_idx,
          last_duration, notes, voices, oscillators, plays, submitted,
          adventure, phase, current_text, current_room, inventory, links,
          storage

vars ==
  <<song, pc, error, raw_notes, note_pos, last_octave, last_pitch_idx,
    last_duration, notes, voices, oscillators, plays, submitted,
    adventure, phase, current_text, current_room, inventory, links, storage>>

game ==
  <<adventure, phase, current_text, current_room, inventory, links, storage>>

\* GameData as Game::try_from builds it (game.rs, lines 276-286)
NewGameData ==
  /\ phase = "constructing"
  /\ current_text = <<>>
  /\ current_room = ""
  /\ inventory = {}
  /\ links = <<>>

resolver ==
  <<raw_notes, note_pos, last_octave, last_pitch_idx, last_duration, notes>>

Init ==
  /\ \/ IsGeneralSong(song)
     \/ song \in SelectedSongs
  /\ pc = "try_from"
  /\ error = "none"
  /\ raw_notes = <<>>
  /\ note_pos = 0
  /\ last_octave = 2
  /\ last_pitch_idx = 6
  /\ last_duration = song.unit_length \div 4
  /\ notes = <<>>
  /\ voices = <<>>
  /\ oscillators = <<>>
  /\ plays = 0
  /\ submitted = <<>>
  /\ adventure = NoAdventure
  /\ NewGameData
  /\ storage = <<>>

(***************************************************************************)
(* VoicePlayer::new, lines 54-70: the tokens of the next voice and the     *)
(* initial resolver state.                                                 *)
(***************************************************************************)
NewVoice ==
  /\ pc = "try_from"
  /\ Len(voices) < Len(song.voices)
  /\ pc' = "resolve"
  /\ raw_notes' = split_whitespace(song.voices[Len(voices) + 1].notes)
  /\ note_pos' = 0
  /\ last_octave' = 2
  /\ last_pitch_idx' = 6
  /\ last_duration' = song.unit_length \div 4
  /\ notes' = <<>>
  /\ UNCHANGED <<song, error, voices, oscillators, plays, submitted, game>>

\* continuity_octave with the upward step not clamped at the last entry
continuity_octave_unclamped(pitch_idx, last_idx, octave) ==
  IF pitch_idx - last_idx > 6
  THEN IF pitch_idx > 6
       THEN octave + 1
       ELSE IF octave > 0 THEN octave - 1 ELSE octave
  ELSE octave

(***************************************************************************)
(* The octave after the continuity adjustment of lines 89-97.  The         *)
(* difference is the signed i64 difference.                                *)
(***************************************************************************)
continuity_octave(pitch_idx, last_idx, octave) ==
  IF pitch_idx - last_idx > 6
  THEN IF pitch_idx > 6
       THEN IF octave + 1 < Len(octaves) THEN octave + 1 ELSE octave
       ELSE IF octave > 0 THEN octave - 1 ELSE octave
  ELSE octave

(***************************************************************************)
(* The octave after the explicit mark of lines 99-107.                     *)
(***************************************************************************)
modifier_octave(octave_mod, octave) ==
  IF octave_mod = <<>> THEN octave
  ELSE IF octave_mod = <<",">>
       THEN IF octave > 0 THEN octave - 1 ELSE octave
       ELSE IF octave < Len(octaves) THEN octave + 1 ELSE octave

(***************************************************************************)
(* Lines 114-127: the duration a token with group 3 sets.  unit_length / d *)
(* and the factor 1.5; f64 division by 0 gives an infinity, written "inf". *)
(***************************************************************************)
explicit_duration(unit_length, digits, dotted) ==
  IF parse_u64(digits) = 0 THEN "inf"
  ELSE IF dotted THEN ((unit_length \div parse_u64(digits)) * 3) \div 2
       ELSE unit_length \div parse_u64(digits)

(***************************************************************************)
(* Line 78: the pitch name that makes a rest.                              *)
(***************************************************************************)
is_rest(note) ==
  note = <<"r">>

(***************************************************************************)
(* One pass of the loop of lines 71-139 over the token raw_note, from the  *)
(* resolver state (idx, octave, duration).  note_pitched: the token gets   *)
(* past the pitch lookup of lines 81-87, so lines 89-109 run.              *)
(***************************************************************************)
note_pitched(raw_note) ==
  /\ rgx_captures(raw_note).matched
  /\ rgx_captures(raw_note).g1 # <<>>
  /\ ~is_rest(rgx_captures(raw_note).g1)
  /\ rgx_captures(raw_note).g1 \in DOMAIN note_indices

\* last_pitch_idx as the pass leaves it (line 109)
note_pitch_idx(raw_note, idx) ==
  IF note_pitched(raw_note) THEN note_indices[rgx_captures(raw_note).g1] ELSE idx

\* note_octave with the octave mark of a rest applied as well
note_octave_rest_marked(raw_note, idx, octave) ==
  IF note_pitched(raw_note)
  THEN modifier_octave(rgx_captures(raw_note).g2,
                       continuity_octave(note_pitch_idx(raw_note, idx), idx, octave))
  ELSE IF rgx_captures(raw_note).matched
       THEN modifier_octave(rgx_captures(raw_note).g2, octave)
       ELSE octave

\* last_octave as the pass leaves it (lines 89-107)
note_octave(raw_note, idx, octave) ==
  IF note_pitched(raw_note)
  THEN modifier_octave(rgx_captures(raw_note).g2,
                       continuity_octave(note_pitch_idx(raw_note, idx), idx, octave))
  ELSE octave

\* the frequency of lines 78-112, once the index of line 111 is in range
note_frequency(raw_note, idx, octave) ==
  IF note_pitched(raw_note)
  THEN frequencies[note_pitch_idx(raw_note, idx) + 1]
         * octaves[note_octave(raw_note, idx, octave) + 1]
  ELSE 0

\* note_duration with a rest starting over from the unit length
note_duration_rest_resets(raw_note, unit_length, duration) ==
  IF rgx_captures(raw_note).g3 # <<>>
  THEN explicit_duration(unit_length, rgx_captures(raw_note).g3,
                         rgx_captures(raw_note).g4 # <<>>)
  ELSE IF rgx_captures(raw_note).matched /\ is_rest(rgx_captures(raw_note).g1)
       THEN unit_length
       ELSE duration

\* note_duration with the dot of a token without a digit taken as well
note_duration_dot_alone(raw_note, unit_length, duration) ==
  IF rgx_captures(raw_note).g3 # <<>>
  THEN explicit_duration(unit_length, rgx_captures(raw_note).g3,
                         rgx_captures(raw_note).g4 # <<>>)
  ELSE IF rgx_captures(raw_note).g4 = <<".">>
       THEN (duration * 3) \div 2
       ELSE duration

\* last_duration as lines 114-127 leave it
note_duration(raw_note, unit_length, duration) ==
  IF rgx_captures(raw_note).g3 # <<>>
  THEN explicit_duration(unit_length, rgx_captures(raw_note).g3,
                         rgx_captures(raw_note).g4 # <<>>)
  ELSE duration

\* note_outcome with a name the table lacks passed on as if it were a rest
note_outcome_unknown_passes(raw_note, idx, octave) ==
  IF ~rgx_captures(raw_note).matched THEN "malformed note"
  ELSE IF rgx_captures(raw_note).g1 = <<>> THEN "missing pitch"
  ELSE IF note_pitched(raw_note) /\ note_octave(raw_note, idx, octave) >= Len(octaves)
       THEN "index out of bounds"
  ELSE IF rgx_captures(raw_note).g3 # <<>> /\ ~parse_u64_ok(rgx_captures(raw_note).g3)
       THEN "durations need to be unsigned integers"
  ELSE "note"

\* How the pass ends: "note" when it pushes a note, else the failure, in
\* the order the code meets them.
note_outcome(raw_note, idx, octave) ==
  IF ~rgx_captures(raw_note).matched THEN "malformed note"
  ELSE IF rgx_captures(raw_note).g1 = <<>> THEN "missing pitch"
  ELSE IF ~is_rest(rgx_captures(raw_note).g1) /\ ~note_pitched(raw_note)
       THEN "unable to parse note pitch"
  ELSE IF note_pitched(raw_note) /\ note_octave(raw_note, idx, octave) >= Len(octaves)
       THEN "index out of bounds"
  ELSE IF rgx_captures(raw_note).g3 # <<>> /\ ~parse_u64_ok(rgx_captures(raw_note).g3)
       THEN "durations need to be unsigned integers"
  ELSE "note"

\* expect() and the index check panic; with_context()? returns an Err
is_panic(outcome) ==
  outcome \in {"malformed note", "index out of bounds"}

\* The failure leaves the pass before line 89 is reached.
before_pitch(outcome) ==
  outcome \in {"malformed note", "missing pitch", "unable to parse note pitch"}

ResolveNote ==
  /\ pc = "resolve"
  /\ note_pos < Len(raw_notes)
  /\ LET raw_note == raw_notes[note_pos + 1]
         outcome == note_outcome(raw_note, last_pitch_idx, last_octave)
     IN IF outcome = "note"
        THEN /\ last_octave' = note_octave(raw_note, last_pitch_idx, last_octave)
             /\ last_pitch_idx' = note_pitch_idx(raw_note, last_pitch_idx)
             /\ last_duration' = note_duration(raw_note, song.unit_length, last_duration)
             /\ notes' = Append(notes,
                   [frequency |-> note_frequency(raw_note, last_pitch_idx, last_octave),
                    duration |-> note_duration(raw_note, song.unit_length, last_duration)])
             /\ note_pos' = note_pos + 1
             /\ UNCHANGED <<pc, error>>
        ELSE /\ pc' = IF is_panic(outcome) THEN "panicked" ELSE "failed"
             /\ error' = outcome
             /\ last_octave' = IF before_pitch(outcome) THEN last_octave
                               ELSE note_octave(raw_note, last_pitch_idx, last_octave)
             /\ last_pitch_idx' = IF before_pitch(outcome) THEN last_pitch_idx
                                  ELSE note_pitch_idx(raw_note, last_pitch_idx)
             /\ UNCHANGED <<last_duration, notes, note_pos>>
  /\ UNCHANGED <<song, raw_notes, voices, oscillators, plays, submitted, game>>

(***************************************************************************)
(* VoicePlayer::new, lines 141-154, and the push of try_from, line 30:     *)
(* after the last token the voice gets its oscillator.                     *)
(***************************************************************************)
new_oscillator ==
  [points |-> <<>>, starts |-> 0, value |-> 440 * FreqScale, type |-> "sine"]

CreateOscillator ==
  /\ pc = "resolve"
  /\ note_pos = Len(raw_notes)
  /\ oscillators' = Append(oscillators, new_oscillator)
  /\ voices' = Append(voices, [unit_length |-> song.unit_length,
                               oscillator |-> Len(oscillators) + 1,
                               notes |-> notes,
                               note_pos |-> 0])
  /\ pc' = "try_from"
  /\ UNCHANGED <<song, error, resolver, plays, submitted, game>>

(***************************************************************************)
(* try_from, lines 33-37: every voice compiled.                            *)
(***************************************************************************)
TryFromOk ==
  /\ pc = "try_from"
  /\ Len(voices) = Len(song.voices)
  /\ pc' = "ready"
  /\ UNCHANGED <<song, error, resolver, voices, oscillators, plays, submitted,
                 game>>

(***************************************************************************)
(* VoicePlayer::play, lines 161-176: the automation points of one voice in *)
(* the order of the set_value_at_time calls, from note i on.               *)
(***************************************************************************)
RECURSIVE schedule(_, _, _, _)

\* schedule with the gap added to the end of the note instead of taken off
schedule_gap_added(vnotes, unit_length, i, offset) ==
  IF i > Len(vnotes)
  THEN << [value |-> 0, time |-> offset] >>
  ELSE << [value |-> vnotes[i].frequency, time |-> offset],
          [value |-> 0,
           time |-> offset + vnotes[i].duration + unit_length \div 32] >>
       \o schedule(vnotes, unit_length, i + 1, offset + vnotes[i].duration)

schedule(vnotes, unit_length, i, offset) ==
  IF i > Len(vnotes)
  THEN << [value |-> 0, time |-> offset] >>
  ELSE << [value |-> vnotes[i].frequency, time |-> offset],
          [value |-> 0,
           time |-> offset + vnotes[i].duration - unit_length \div 32] >>
       \o schedule(vnotes, unit_length, i + 1, offset + vnotes[i].duration)

(***************************************************************************)
(* AudioParam.setValueAtTime raises a RangeError for a negative time, and  *)
(* the expect() of lines 166, 170 and 176 panics on it: the points handed  *)
(* over before the first negative time are the ones the oscillator gets.   *)
(***************************************************************************)
accepted(points) ==
  IF \E k \in 1..Len(points) : points[k].time < 0
  THEN SubSeq(points, 1,
              (CHOOSE k \in 1..Len(points) :
                 points[k].time < 0 /\ \A j \in 1..(k - 1) : points[j].time >= 0) - 1)
  ELSE points

(***************************************************************************)
(* VoicePlayer::play on its oscillator osc: the oscillator afterwards, the *)
(* points of this call, and the panic that ended the call, if any.         *)
(* OscillatorNode.start raises an InvalidStateError on a node that was     *)
(* started before, and the expect() of line 180 panics on it.              *)
(***************************************************************************)
voice_play(voice, osc) ==
  LET points == schedule(voice.notes, voice.unit_length, 1, 0)
      taken == accepted(points)
      set == [osc EXCEPT !.value = 0, !.type = "square",
                         !.points = osc.points \o taken]
  IN IF taken # points
     THEN [oscillator |-> set, points |-> taken,
           panic |-> "uanble to schedule the note"]
     ELSE [oscillator |-> [set EXCEPT !.starts = osc.starts + 1],
           points |-> taken,
           panic |-> IF osc.starts > 0
                     THEN "Unable to start the oscillator" ELSE "none"]

(***************************************************************************)
(* SongPlayer::play, lines 15-19: the voices in order; a panic ends it.    *)
(***************************************************************************)
RECURSIVE song_play(_, _, _, _)
song_play(vs, oscs, i, sub) ==
  IF i > Len(vs)
  THEN [oscillators |-> oscs, submitted |-> sub, panic |-> "none"]
  ELSE LET r == voice_play(vs[i], oscs[vs[i].oscillator])
           oscs2 == [oscs EXCEPT ![vs[i].oscillator] = r.oscillator]
       IN IF r.panic # "none"
          THEN [oscillators |-> oscs2, submitted |-> Append(sub, r.points),
                panic |-> r.panic]
          ELSE song_play(vs, oscs2, i + 1, Append(sub, r.points))

(***************************************************************************)
(* A click on an action that names this song: game.rs lines 135-139 call   *)
(* play() on the SongPlayer that Game::try_from compiled once.             *)
(***************************************************************************)
Play ==
  /\ pc = "ready"
  /\ plays < MaxPlays
  /\ LET r == song_play(voices, oscillators, 1, <<>>)
     IN /\ oscillators' = r.oscillators
        /\ submitted' = r.submitted
        /\ error' = r.panic
        /\ pc' = IF r.panic = "none" THEN "ready" ELSE "panicked"
  /\ plays' = plays + 1
  /\ UNCHANGED <<song, resolver, voices, game>>

Next ==
  \/ NewVoice
  \/ ResolveNote
  \/ CreateOscillator
  \/ TryFromOk
  \/ Play

Spec ==
  Init /\ [][Next]_vars

(***************************************************************************)
(* The game of game.rs.  Game::try_from compiles the song of assets.music  *)
(* with the steps above; Game::start, the click callbacks and the reload   *)
(* of the page follow.                                                     *)
(***************************************************************************)
GameInit ==
  /\ song = TuneSong
  /\ pc = "try_from"
  /\ error = "none"
  /\ raw_notes = <<>>
  /\ note_pos = 0
  /\ last_octave = 2
  /\ last_pitch_idx = 6
  /\ last_duration = song.unit_length \div 4
  /\ notes = <<>>
  /\ voices = <<>>
  /\ oscillators = <<>>
  /\ plays = 0
  /\ submitted = <<>>
  /\ IsAdventure(adventure)
  /\ NewGameData
  /\ storage = <<>>

\* update_actions, lines 87-105: the action is shown
depends_met(action, items) ==
  /\ \A item \in action.on : item \in items
  /\ \A item \in action.not : item \notin items

\* update_actions, lines 81-180: the links the actions element holds after
update_actions(actions, items) ==
  SelectSeq(actions, LAMBDA action : depends_met(action, items))

\* goto_room, lines 59-73, after current_room was set at line 57: the text
\* and the links it leaves
goto_room(text, shown, items, room) ==
  IF room \in DOMAIN adventure.rooms
  THEN [current_text |-> text \o adventure.rooms[room].description,
        links |-> update_actions(adventure.rooms[room].actions, items)]
  ELSE [current_text |-> text, links |-> shown]

\* start, lines 43-47
StartAction ==
  [name |-> "Start", yields |-> {}, text |-> <<>>, on |-> {}, not |-> {},
   transition |-> <<adventure.start>>, music |-> <<>>]

\* into_iter().collect() of a HashSet into a Vec: the items in some order
Collected(items) ==
  { v \in [1..Cardinality(items) -> items] :
      \A i, j \in 1..Cardinality(items) : v[i] = v[j] => i = j }

\* into_iter().collect() of a Vec into a HashSet
ItemSet(v) ==
  { v[i] : i \in 1..Len(v) }

\* save, lines 186-200: the values the item may get
SaveGame(text, items, room) ==
  { [current_text |-> text, inventory |-> v, current_room |-> room] :
      v \in Collected(items) }

\* lines 141-144
action_text(action) ==
  IF action.text = <<>> THEN <<>> ELSE action.text \o <<"<br/><br/>">>

\* lines 135-136: the action names a song the game has
plays_music(action) ==
  action.music # <<>> /\ action.music[1] \in MusicKeys

\* lines 135-139: what the play call does to the audio state
music_played(action) ==
  IF plays_music(action)
  THEN song_play(voices, oscillators, 1, <<>>)
  ELSE [oscillators |-> oscillators, submitted |-> submitted, panic |-> "none"]

\* lines 146-170 reach save at line 170
reaches_save(action) ==
  action.transition # <<>> \/ current_room \in DOMAIN adventure.rooms

\* the room lines 146-167 work on
target_room(action) ==
  IF action.transition # <<>> THEN action.transition[1] ELSE current_room

(***************************************************************************)
(* Game::start, lines 37-54, with load, lines 203-224.                     *)
(***************************************************************************)
Start ==
  /\ pc = "ready"
  /\ phase = "constructing"
  /\ phase' = "started"
  /\ IF storage = <<>>
     THEN /\ current_text' = adventure.intro
          /\ links' = update_actions(<<StartAction>>, inventory)
          /\ UNCHANGED <<current_room, inventory>>
     ELSE /\ inventory' = ItemSet(storage[1].inventory)
          /\ current_room' = storage[1].current_room
          /\ links' = goto_room(adventure.intro,
                                update_actions(<<StartAction>>, inventory),
                                ItemSet(storage[1].inventory),
                                storage[1].current_room).links
          /\ current_text' = storage[1].current_text
  /\ UNCHANGED <<song, pc, error, resolver, voices, oscillators, plays,
                 submitted, adventure, storage>>

(***************************************************************************)
(* The click callback of a shown link, lines 126-171.  A panic of play()   *)
(* ends it after the yields were added.                                    *)
(***************************************************************************)
Click ==
  /\ pc = "ready"
  /\ phase \in {"started", "clicked"}
  /\ \E k \in 1..Len(links) :
       /\ inventory' = inventory \cup links[k].yields
       /\ oscillators' = music_played(links[k]).oscillators
       /\ submitted' = music_played(links[k]).submitted
       /\ plays' = IF plays_music(links[k]) THEN plays + 1 ELSE plays
       /\ IF music_played(links[k]).panic # "none"
          THEN /\ pc' = "panicked"
               /\ error' = music_played(links[k]).panic
               /\ phase' = "crashed"
               /\ UNCHANGED <<current_text, current_room, links, storage>>
          ELSE /\ UNCHANGED <<pc, error>>
               /\ phase' = "clicked"
               /\ current_room' = target_room(links[k])
               /\ current_text' =
                    goto_room(action_text(links[k]), links,
                              inventory \cup links[k].yields,
                              target_room(links[k])).current_text
               /\ links' =
                    goto_room(action_text(links[k]), links,
                              inventory \cup links[k].yields,
                              target_room(links[k])).links
               /\ IF reaches_save(links[k])
                  THEN storage' \in { <<save>> :
                         save \in SaveGame(current_text', inventory', current_room') }
                  ELSE UNCHANGED storage
  /\ UNCHANGED <<song, resolver, voices, adventure>>

(***************************************************************************)
(* The page is loaded again: a new Game is built over the local storage    *)
(* as it is.                                                               *)
(***************************************************************************)
Reload ==
  /\ phase # "constructing"
  /\ pc' = "try_from"
  /\ error' = "none"
  /\ raw_notes' = <<>>
  /\ note_pos' = 0
  /\ last_octave' = 2
  /\ last_pitch_idx' = 6
  /\ last_duration' = song.unit_length \div 4
  /\ notes' = <<>>
  /\ voices' = <<>>
  /\ oscillators' = <<>>
  /\ plays' = 0
  /\ submitted' = <<>>
  /\ phase' = "constructing"
  /\ current_text' = <<>>
  /\ current_room' = ""
  /\ inventory' = {}
  /\ links' = <<>>
  /\ UNCHANGED <<song, adventure, storage>>

(***************************************************************************)
(* reset, lines 226-236: the save is removed and the page loaded again.    *)
(***************************************************************************)
reset ==
  /\ phase # "constructing"
  /\ storage # <<>>
  /\ storage' = <<>>
  /\ pc' = "try_from"
  /\ error' = "none"
  /\ raw_notes' = <<>>
  /\ note_pos' = 0
  /\ last_octave' = 2
  /\ last_pitch_idx' = 6
  /\ last_duration' = song.unit_length \div 4
  /\ notes' = <<>>
  /\ voices' = <<>>
  /\ oscillators' = <<>>
  /\ plays' = 0
  /\ submitted' = <<>>
  /\ phase' = "constructing"
  /\ current_text' = <<>>
  /\ current_room' = ""
  /\ inventory' = {}
  /\ links' = <<>>
  /\ UNCHANGED <<song, adventure>>

GameNext ==
  \/ NewVoice
  \/ ResolveNote
  \/ CreateOscillator
  \/ TryFromOk
  \/ Start
  \/ Click
  \/ Reload
  \/ reset

GameSpec ==
  GameInit /\ [][GameNext]_vars

(***************************************************************************)
(* The notation of the specification, for the statements below.  A token   *)
(* of the grammar <letters><octave-mark>?<digits>?<dot>? is one or more    *)
(* lower-case letters (the pitch name), then at most one of , and ', then  *)
(* decimal digits, then at most one dot, and nothing else.                 *)
(***************************************************************************)
LettersLen(tok) ==
  CHOOSE n \in 0..Len(tok) :
    /\ \A i \in 1..n : tok[i] \in Lower
    /\ (n = Len(tok) \/ tok[n + 1] \notin Lower)

PitchName(tok) ==
  SubSeq(tok, 1, LettersLen(tok))

MarkLen(tok) ==
  IF LettersLen(tok) < Len(tok) /\ tok[LettersLen(tok) + 1] \in {",", "'"}
  THEN 1 ELSE 0

DigitsLen(tok) ==
  CHOOSE n \in 0..(Len(tok) - LettersLen(tok) - MarkLen(tok)) :
    /\ \A i \in 1..n : tok[LettersLen(tok) + MarkLen(tok) + i] \in Digit
    /\ \/ LettersLen(tok) + MarkLen(tok) + n = Len(tok)
       \/ tok[LettersLen(tok) + MarkLen(tok) + n + 1] \notin Digit

DurationDigits(tok) ==
  SubSeq(tok, LettersLen(tok) + MarkLen(tok) + 1,
         LettersLen(tok) + MarkLen(tok) + DigitsLen(tok))

Dotted(tok) ==
  /\ LettersLen(tok) + MarkLen(tok) + DigitsLen(tok) < Len(tok)
  /\ tok[LettersLen(tok) + MarkLen(tok) + DigitsLen(tok) + 1] = "."

InGrammar(tok) ==
  /\ LettersLen(tok) >= 1
  /\ LettersLen(tok) + MarkLen(tok) + DigitsLen(tok) + (IF Dotted(tok) THEN 1 ELSE 0)
       = Len(tok)

IsRestToken(tok) ==
  PitchName(tok) = <<"r">>

UnknownPitch(tok) ==
  /\ PitchName(tok) # <<>>
  /\ PitchName(tok) # <<"r">>
  /\ PitchName(tok) \notin DOMAIN note_indices

HasDigit(tok) ==
  \E i \in 1..Len(tok) : tok[i] \in Digit

VoiceTokens(i) ==
  split_whitespace(song.voices[i].notes)

SongHasUnknownPitch ==
  \E i \in 1..Len(song.voices) :
    \E k \in 1..Len(VoiceTokens(i)) : UnknownPitch(VoiceTokens(i)[k])

\* try_from has come to an end without a SongPlayer
CompileEnded ==
  plays = 0 /\ pc \in {"failed", "panicked"}

\* the token at which VoicePlayer::new stopped
StoppedAt ==
  raw_notes[note_pos + 1]

RECURSIVE SumDurations(_, _)
SumDurations(ns, k) ==
  IF k = 0 THEN 0 ELSE ns[k].duration + SumDurations(ns, k - 1)

NoPointSubmitted ==
  /\ submitted = <<>>
  /\ \A o \in 1..Len(oscillators) : oscillators[o].points = <<>>

(***************************************************************************)
(* C1.  The octave index stays within 0..4 after every token of every      *)
(* voice, so octaves is never indexed outside its five entries.            *)
(* The code breaks it: the up-mark test of line 104 is                     *)
(* last_octave < octaves.len(), so an up-mark at index 4 makes it 5 and    *)
(* line 111 indexes octaves[5].                                            *)
(***************************************************************************)
C1_OctaveIndexInRange ==
  last_octave \in 0..4

(***************************************************************************)
(* C2.  With a positive unit_length, the automation points one play call   *)
(* submits for a voice are two per note and one more, non-decreasing in    *)
(* time in the order submitted, and the last one is the only point at the  *)
(* sum of the note durations and sets the frequency 0.                     *)
(***************************************************************************)
C2_ScheduleOrdered ==
  song.unit_length > 0 =>
    \A i \in 1..Len(submitted) :
      /\ Len(submitted[i]) = 2 * Len(voices[i].notes) + 1
      /\ \A k \in 1..(Len(submitted[i]) - 1) :
           submitted[i][k].time <= submitted[i][k + 1].time
      /\ submitted[i][Len(submitted[i])].value = 0
      /\ \A k \in 1..Len(submitted[i]) :
           (submitted[i][k].time
              = SumDurations(voices[i].notes, Len(voices[i].notes)))
             <=> (k = Len(submitted[i]))

C2_Witness ==
  /\ song.unit_length > 0
  /\ plays >= 1
  /\ Len(submitted) >= 2
  /\ Len(submitted[1]) >= 5
  /\ submitted[1][1].value > 0
  /\ submitted[1][3].value = 0

(***************************************************************************)
(* C3.  Every play call works on generators of its own: no oscillator is   *)
(* started more than once and no play call panics (unit_length positive).  *)
(* The code breaks it: the oscillators are made once, in VoicePlayer::new, *)
(* and the second play() of the same SongPlayer starts them again.         *)
(***************************************************************************)
C3_PlayStartsFreshGenerators ==
  song.unit_length > 0 =>
    /\ \A o \in 1..Len(oscillators) : oscillators[o].starts <= 1
    /\ plays > 0 => pc = "ready"

(***************************************************************************)
(* C4.  When try_from returns a failure, no oscillator has been created    *)
(* for any voice of the song.                                              *)
(* The code breaks it: every voice before the failing one has had its      *)
(* oscillator created and connected by then.                               *)
(***************************************************************************)
C4_FailedCompileCreatesNothing ==
  pc = "failed" => oscillators = <<>>

(***************************************************************************)
(* C5, as amended.  The compiler never gets past a token whose pitch name  *)
(* is unknown: when it reaches one it returns the unknown-pitch failure,   *)
(* a song holding one never yields a SongPlayer, and no automation point   *)
(* of such a song is ever submitted.                                       *)
(***************************************************************************)
C5_UnknownPitchStopsCompile ==
  /\ \A k \in 1..note_pos : ~UnknownPitch(raw_notes[k])
  /\ (CompileEnded /\ note_pos < Len(raw_notes) /\ UnknownPitch(StoppedAt))
       => (pc = "failed" /\ error = "unable to parse note pitch")
  /\ SongHasUnknownPitch => (pc # "ready" /\ NoPointSubmitted)

C5_Witness ==
  /\ pc = "failed"
  /\ error = "unable to parse note pitch"
  /\ Len(voices) = 1
  /\ note_pos = 1
  /\ UnknownPitch(StoppedAt)
  /\ NoPointSubmitted

(***************************************************************************)
(* C5, as stated, for the compilations that return a failure result: the   *)
(* failure a song with an unknown pitch name somewhere in a voice returns  *)
(* is the unknown-pitch failure.  An earlier token that fails another way  *)
(* refutes it (and so does one that panics).                               *)
(***************************************************************************)
C5_UnknownPitchAnywhere ==
  (SongHasUnknownPitch /\ pc = "failed")
    => error = "unable to parse note pitch"

(***************************************************************************)
(* C6.  A token that is not of the grammar in its entirety is never        *)
(* resolved into a note, and the compilation that stops at it returns a    *)
(* failure result, it does not panic.                                      *)
(* The code breaks it both ways: the expression is not anchored, and       *)
(* captures(..).expect("malformed note") panics when nothing matches.      *)
(***************************************************************************)
C6_MalformedTokenFails ==
  /\ \A k \in 1..note_pos : InGrammar(raw_notes[k])
  /\ (CompileEnded /\ note_pos < Len(raw_notes) /\ ~InGrammar(StoppedAt))
       => pc = "failed"

(***************************************************************************)
(* C7.  unit_length 4.0 and the one voice "c4 e4 g4 c2" compile to four    *)
(* notes of durations 1.0, 1.0, 1.0, 2.0 and frequencies 261, 329, 392,    *)
(* 261, and play submits the mute points 0.875, 1.875, 2.875, 4.875 and    *)
(* the terminal zero at 5.0.                                               *)
(* The code breaks it: no digit is ever read as a duration and octave      *)
(* index 2 is the factor 0.5.                                              *)
(***************************************************************************)
C7_RoundTrip ==
  (song = [unit_length |-> 4000, voices |-> <<[notes |-> RoundTripNotes]>>]
   /\ pc = "ready")
    => /\ voices[1].notes =
            << [frequency |-> 261 * FreqScale, duration |-> 1000],
               [frequency |-> 329 * FreqScale, duration |-> 1000],
               [frequency |-> 392 * FreqScale, duration |-> 1000],
               [frequency |-> 261 * FreqScale, duration |-> 2000] >>
       /\ plays > 0 =>
            /\ Len(submitted[1]) = 9
            /\ submitted[1][2] = [value |-> 0, time |-> 875]
            /\ submitted[1][4] = [value |-> 0, time |-> 1875]
            /\ submitted[1][6] = [value |-> 0, time |-> 2875]
            /\ submitted[1][8] = [value |-> 0, time |-> 4875]
            /\ submitted[1][9] = [value |-> 0, time |-> 5000]

(***************************************************************************)
(* C8.  A token without a duration digit resolves to the duration of the   *)
(* note resolved just before it in its voice, unit_length/4 for the first  *)
(* token, rests included on either side; and last_duration is always the   *)
(* duration of the last note resolved.                                     *)
(***************************************************************************)
C8_DurationInherited ==
  /\ Len(notes) = note_pos
  /\ \A k \in 1..note_pos :
       ~HasDigit(raw_notes[k]) =>
         notes[k].duration =
           (IF k = 1 THEN song.unit_length \div 4 ELSE notes[k - 1].duration)
  /\ last_duration =
       (IF note_pos = 0 THEN song.unit_length \div 4 ELSE notes[note_pos].duration)

C8_Witness ==
  /\ note_pos = 3
  /\ ~IsRestToken(raw_notes[1])
  /\ IsRestToken(raw_notes[2])
  /\ ~IsRestToken(raw_notes[3])
  /\ ~HasDigit(raw_notes[2])
  /\ ~HasDigit(raw_notes[3])
  /\ notes[3].duration = notes[1].duration

(***************************************************************************)
(* C9.  A resolved token of the grammar with the duration digits d has the *)
(* duration unit_length / d, times 1.5 when it ends in a dot.              *)
(* The code breaks it: group 3 of the expression is the text "1-9", a      *)
(* digit is never captured, and every note keeps unit_length / 4.          *)
(***************************************************************************)
C9_ExplicitDuration ==
  \A k \in 1..note_pos :
    (InGrammar(raw_notes[k]) /\ DurationDigits(raw_notes[k]) # <<>>
     /\ DecimalValue(DurationDigits(raw_notes[k])) > 0)
      => 2 * DecimalValue(DurationDigits(raw_notes[k])) * notes[k].duration
           = (IF Dotted(raw_notes[k]) THEN 3 ELSE 2) * song.unit_length

(***************************************************************************)
(* C10.  The pass that resolves a rest token pushes a note of frequency 0  *)
(* and leaves last_pitch_idx and last_octave as they were, whether or not  *)
(* the rest carries an octave mark.                                        *)
(***************************************************************************)
C10_RestKeepsPitchState ==
  [][(/\ pc = "resolve"
      /\ note_pos < Len(raw_notes)
      /\ IsRestToken(raw_notes[note_pos + 1])
      /\ note_pos' = note_pos + 1)
       => (/\ notes'[note_pos'].frequency = 0
           /\ last_pitch_idx' = last_pitch_idx
           /\ last_octave' = last_octave)]_vars

C10_Witness ==
  /\ note_pos = 3
  /\ raw_notes = << <<"c">>, <<"r">>, <<"b">> >>
  /\ notes[2].frequency = 0
  /\ last_pitch_idx = 11
  /\ last_octave = 3

(***************************************************************************)
(* More notation: the octave mark of a token, the semitone index of its    *)
(* pitch name, and the two continuity jumps of the specification.          *)
(***************************************************************************)
Mark(tok) ==
  SubSeq(tok, LettersLen(tok) + 1, LettersLen(tok) + MarkLen(tok))

KnownPitch(tok) ==
  InGrammar(tok) /\ PitchName(tok) \in DOMAIN note_indices

SemitoneIndex(tok) ==
  note_indices[PitchName(tok)]

\* the next token is a known pitch, to be resolved by the next pass
AtKnownPitch ==
  /\ pc = "resolve"
  /\ note_pos < Len(raw_notes)
  /\ KnownPitch(raw_notes[note_pos + 1])

JumpUp(tok) ==
  SemitoneIndex(tok) > 6 /\ SemitoneIndex(tok) - last_pitch_idx > 6

JumpDown(tok) ==
  SemitoneIndex(tok) <= 6 /\ last_pitch_idx - SemitoneIndex(tok) > 6

StepUp(octave) ==
  IF octave = 4 THEN 4 ELSE octave + 1

StepDown(octave) ==
  IF octave = 0 THEN 0 ELSE octave - 1

(***************************************************************************)
(* C11.  A pitched token whose semitone index is above 6 and more than 6   *)
(* away from last_pitch_idx has the octave index raised by one, 4 staying  *)
(* 4, before its mark is applied and its frequency computed; the b of the  *)
(* voice "c b" is resolved at octave index 3.                              *)
(***************************************************************************)
C11_ContinuityIncrement ==
  /\ []((raw_notes = << <<"c">>, <<"b">> >> /\ note_pos = 2)
          => (last_octave = 3
              /\ notes[2].frequency = frequencies[12] * octaves[4]))
  /\ [][(AtKnownPitch /\ JumpUp(raw_notes[note_pos + 1]))
          => (/\ last_octave' = modifier_octave(Mark(raw_notes[note_pos + 1]),
                                                StepUp(last_octave))
              /\ note_pos' = note_pos + 1 =>
                   notes'[note_pos'].frequency =
                     frequencies[SemitoneIndex(raw_notes[note_pos + 1]) + 1]
                       * octaves[last_octave' + 1])]_vars

\* "c' c' b": the b jumps up at octave index 4 and stays there
C11_Witness ==
  /\ raw_notes = << <<"c", "'">>, <<"c", "'">>, <<"b">> >>
  /\ note_pos = 3
  /\ last_pitch_idx = 11
  /\ last_octave = 4
  /\ notes[3].frequency = frequencies[12] * octaves[5]

(***************************************************************************)
(* C12.  A pitched token whose semitone index is at most 6 and more than 6 *)
(* below last_pitch_idx, as the c of "b c", has the octave index lowered   *)
(* by one, 0 staying 0, before its mark is applied.                        *)
(* The code breaks it: line 89 takes the signed difference, which is       *)
(* negative here, so the branch of line 94 is never reached.               *)
(***************************************************************************)
C12_ContinuityDecrement ==
  [][(AtKnownPitch /\ JumpDown(raw_notes[note_pos + 1]))
       => last_octave' = modifier_octave(Mark(raw_notes[note_pos + 1]),
                                         StepDown(last_octave))]_vars

(***************************************************************************)
(* C13.  The octave mark is applied after the continuity adjustment and on *)
(* top of it, each step clamped to 0..4: a token that jumps up and carries *)
(* , ends at StepDown(StepUp(index)), one that jumps up and carries ' ends *)
(* at StepUp(StepUp(index)), and either is resolved into a note.           *)
(* The code breaks it through the clamp of C1: a jump up from index 3      *)
(* followed by ' gives index 5 and the panic of line 111.                  *)
(***************************************************************************)
C13_MarkAfterContinuity ==
  [][(/\ AtKnownPitch
      /\ JumpUp(raw_notes[note_pos + 1])
      /\ MarkLen(raw_notes[note_pos + 1]) = 1)
       => (/\ note_pos' = note_pos + 1
           /\ last_octave' =
                (IF Mark(raw_notes[note_pos + 1]) = <<",">>
                 THEN StepDown(StepUp(last_octave))
                 ELSE StepUp(StepUp(last_octave))))]_vars

(***************************************************************************)
(* C14.  The first token of a voice, when it is a known pitch without an   *)
(* octave mark, is emitted at the frequency of the base table: the initial *)
(* octave index 2 selects the factor 1.0.                                  *)
(* The code breaks it: octaves[2] is 0.5, the note has half the frequency. *)
(***************************************************************************)
C14_FirstTokenAtBaseFrequency ==
  (note_pos >= 1 /\ KnownPitch(raw_notes[1]) /\ MarkLen(raw_notes[1]) = 0)
    => notes[1].frequency = frequencies[SemitoneIndex(raw_notes[1]) + 1] * FreqScale

(***************************************************************************)
(* C15.  No token whose duration digits denote 0 is ever resolved into a   *)
(* note, the compilation that stops at one returns the invalid-duration    *)
(* failure, and every resolved note has a duration above 0 (unit_length    *)
(* positive).                                                              *)
(* The code breaks it: group 3 never holds a digit, "c0" is a note of      *)
(* unit_length / 4.                                                        *)
(***************************************************************************)
ZeroDuration(tok) ==
  /\ InGrammar(tok)
  /\ DurationDigits(tok) # <<>>
  /\ DecimalValue(DurationDigits(tok)) = 0

C15_ZeroDurationRejected ==
  song.unit_length > 0 =>
    /\ \A k \in 1..note_pos : ~ZeroDuration(raw_notes[k])
    /\ \A k \in 1..Len(notes) : notes[k].duration > 0
    /\ (CompileEnded /\ note_pos < Len(raw_notes) /\ ZeroDuration(StoppedAt))
         => (pc = "failed" /\ error = "durations need to be unsigned integers")

(***************************************************************************)
(* C16, as amended.  A token of the grammar that ends in a dot and has no  *)
(* duration digit is not rejected as malformed: it is resolved as the same *)
(* token without the dot is, and when that one gives a note so does the    *)
(* dotted one, of the same frequency and of the inherited duration.        *)
(***************************************************************************)
DotWithoutDigit(tok) ==
  InGrammar(tok) /\ DigitsLen(tok) = 0 /\ Dotted(tok)

Undotted(tok) ==
  SubSeq(tok, 1, Len(tok) - 1)

C16_DotWithoutDigitAccepted ==
  [][(/\ pc = "resolve"
      /\ note_pos < Len(raw_notes)
      /\ DotWithoutDigit(raw_notes[note_pos + 1]))
       => (/\ error' # "malformed note"
           /\ error' = (IF note_outcome(Undotted(raw_notes[note_pos + 1]),
                                        last_pitch_idx, last_octave) = "note"
                        THEN error
                        ELSE note_outcome(Undotted(raw_notes[note_pos + 1]),
                                          last_pitch_idx, last_octave))
           /\ error' = error =>
                /\ note_pos' = note_pos + 1
                /\ notes'[note_pos'] =
                     [frequency |-> note_frequency(Undotted(raw_notes[note_pos + 1]),
                                                   last_pitch_idx, last_octave),
                      duration |-> last_duration]
                /\ last_duration' = last_duration)]_vars

\* "r c.": the dotted c is the second note, of the duration of the rest
C16_Witness ==
  /\ raw_notes = << <<"r">>, <<"c", ".">> >>
  /\ note_pos = 2
  /\ pc = "resolve"
  /\ notes[2].frequency = frequencies[1] * octaves[3]
  /\ notes[2].duration = notes[1].duration
  /\ notes[2].duration = song.unit_length \div 4

(***************************************************************************)
(* C16, as stated.  A token that ends in a dot and has no duration digit   *)
(* is never resolved into a note.                                          *)
(***************************************************************************)
C16_DotWithoutDigitRejected ==
  \A k \in 1..note_pos : ~DotWithoutDigit(raw_notes[k])

(***************************************************************************)
(* C17.  Every play call hands over, for every note of every voice, a mute *)
(* point that is not before the note's own frequency point, and no point   *)
(* at a negative time: the mute point is clamped to the note's offset when *)
(* unit_length / 32 exceeds the duration.                                  *)
(* The code breaks it: line 169 computes offset + duration - unit_length / *)
(* 32 as it is; with a negative unit_length that is before the offset and  *)
(* negative, and the expect() of line 170 panics on the RangeError.        *)
(***************************************************************************)
C17_MutePointNotBeforeNote ==
  \A i \in 1..Len(submitted) :
    /\ Len(submitted[i]) = 2 * Len(voices[i].notes) + 1
    /\ \A k \in 1..Len(submitted[i]) : submitted[i][k].time >= 0
    /\ \A k \in 1..Len(voices[i].notes) :
         submitted[i][2 * k].time >= submitted[i][2 * k - 1].time

(***************************************************************************)
(* The actions of a room an inventory admits; a name that is no room's has *)
(* none.                                                                   *)
(***************************************************************************)
Admitted(action, items) ==
  action.on \subseteq items /\ action.not \cap items = {}

GatedActions(room, items) ==
  IF room \in DOMAIN adventure.rooms
  THEN SelectSeq(adventure.rooms[room].actions,
                 LAMBDA action : Admitted(action, items))
  ELSE <<>>

(***************************************************************************)
(* C18.  After every click callback that has returned, the links shown are *)
(* exactly the actions of the room current_room names that the inventory,  *)
(* yields of the clicked action included, admits.                          *)
(* The code breaks it for a transition to a name that is no room's:        *)
(* goto_room sets current_room at line 57 and returns at line 63 without   *)
(* touching the links, so the links of the room left stay shown.           *)
(***************************************************************************)
C18_LinksAreGatedActions ==
  phase = "clicked" => links = GatedActions(current_room, inventory)

(***************************************************************************)
(* C19.  After every click callback that has returned, the stored SaveGame *)
(* holds current_text, inventory and current_room as they are in memory;   *)
(* and Game::start over a stored SaveGame leaves these three as stored and *)
(* shows the actions of the stored room that the stored inventory admits.  *)
(* The code breaks it: the return of line 156 leaves the callback before   *)
(* save, and a stored room that does not exist leaves the Start link.      *)
(***************************************************************************)
C19_SaveLoadRoundTrip ==
  /\ phase = "clicked" =>
       /\ storage # <<>>
       /\ storage[1].current_text = current_text
       /\ ItemSet(storage[1].inventory) = inventory
       /\ storage[1].current_room = current_room
  /\ (phase = "started" /\ storage # <<>>) =>
       /\ current_text = storage[1].current_text
       /\ inventory = ItemSet(storage[1].inventory)
       /\ current_room = storage[1].current_room
       /\ links = GatedActions(storage[1].current_room,
                               ItemSet(storage[1].inventory))

====
